---- MODULE Spec2Model ----
(***************************************************************************)
(* Model of oyamad/simplex_grid: the batch enumerator simplex_grid, the    *)
(* rankers simplex_index / simplex_index_rec, the counter                  *)
(* num_compositions (simplex_grid.py) and the generator facade SimplexGrid *)
(* (simplex_grid_gen.py).                                                  *)
(*                                                                         *)
(* Arrays are functions over 0..len-1, indexed as in the Python source.    *)
(* Three specifications are given:                                         *)
(*   SpecBatch  one call of simplex_grid(bm, bn), stepped through its      *)
(*              loop, followed by rank queries on the rows it returned;    *)
(*   Spec       one SimplexGrid(m, n) object, two generators obtained      *)
(*              from generate() and __getitem__ calls, freely interleaved; *)
(*   SpecAt     one SimplexGrid(m, n) object asked for every rank.         *)
(***************************************************************************)
EXTENDS Integers, Sequences, FiniteSets, TLC

\* ------------------------------------------------------------------ bounds
MaxM == 3      \* batch: m ranges over 1..MaxM
MaxN == 4      \* batch: n ranges over 0..MaxN
GenMaxM == 3   \* Spec: m ranges over 0..GenMaxM (SpecAt: 0..MaxM)
GenMaxN == 3   \* Spec: n ranges over -1..GenMaxN (SpecAt: -1..MaxN)
MaxExtra == 2  \* a generator is followed for at most size + MaxExtra yields

\* The two sequences obtained from generate() on the one facade.
GenIds == {1, 2}
\* Owner tag of the array allocated inside a __getitem__ call.
AtOwner == 0
\* Values an uninitialised cell of np.empty may hold.
JunkValues == {-7, 0, 9}

VARIABLES
  \* simplex_grid(bm, bn): arguments, program position and locals
  bm, bn, bpc, L, x, h, i, out, junk,
  \* the last rank query made on a returned row
  q,
  \* SimplexGrid object: self.m, self.n, self.size, and whether __init__ ran
  m, n, size, fpc,
  \* generator objects, the arrays they and __getitem__ allocated, and the
  \* outcome of the last __getitem__ call
  gens, heap, atRes

bvars == <<bm, bn, bpc, L, x, h, i, out, junk, q>>
fvars == <<m, n, size, fpc, gens, heap, atRes>>
vars == <<bm, bn, bpc, L, x, h, i, out, junk, q, m, n, size, fpc, gens, heap, atRes>>

\* --------------------------------------------------------- numpy arrays
zeros(len) == [j \in 0..(len-1) |-> 0]

\* An index numpy accepts for an axis of length len (negative ones wrap).
InBounds(k, len) == -len <= k /\ k < len

PyIdx(k, len) == IF k < 0 THEN k + len ELSE k

Min(a, b) == IF a <= b THEN a ELSE b

Max(a, b) == IF a >= b THEN a ELSE b

\* ------------------------------------------------------------- Counter
\* scipy.misc.comb(N, k, exact=True), the version the source points to:
\*   if (k > N) or (N < 0) or (k < 0): return 0
\*   val = 1
\*   for j in xrange(min(k, N-k)): val = (val*(N-j))//(j+1)
RECURSIVE combLoop(_, _, _, _)
combLoop(j, lim, N, val) ==
  IF j >= lim THEN val
  ELSE combLoop(j + 1, lim, N, (val * (N - j)) \div (j + 1))

comb(N, k) ==
  IF k > N \/ N < 0 \/ k < 0 THEN 0
  ELSE combLoop(0, Min(k, N - k), N, 1)

num_compositions(mm, nn) == comb(nn + mm - 1, mm - 1)

\* ---------------------------------------------------- batch enumerator
\* np.empty((LL, mm), dtype=int): every cell holds whatever was in memory.
empty(LL, mm, jv) == [r \in 0..(LL-1) |-> [j \in 0..(mm-1) |-> jv]]

\* Faulty variant: "if val != 1: h = m" left out.
LoopBodyNoReset(xx, hh, mm) ==
  IF ~(InBounds(hh, mm) /\ InBounds(hh - 1, mm) /\ InBounds(mm - 1, mm))
  THEN [ok |-> FALSE, x |-> xx, h |-> hh, val |-> 0]
  ELSE LET val == xx[PyIdx(hh, mm)]
           x1 == [xx EXCEPT ![PyIdx(hh, mm)] = 0]
           x2 == [x1 EXCEPT ![PyIdx(mm - 1, mm)] = val - 1]
           x3 == [x2 EXCEPT ![PyIdx(hh - 1, mm)] = x2[PyIdx(hh - 1, mm)] + 1]
       IN [ok |-> TRUE, x |-> x3, h |-> hh, val |-> val]

\* Faulty variant: x[m-1] = val instead of val - 1.
LoopBodyKeepVal(xx, hh, mm) ==
  IF ~(InBounds(hh, mm) /\ InBounds(hh - 1, mm) /\ InBounds(mm - 1, mm))
  THEN [ok |-> FALSE, x |-> xx, h |-> hh, val |-> 0]
  ELSE LET val == xx[PyIdx(hh, mm)]
           x1 == [xx EXCEPT ![PyIdx(hh, mm)] = 0]
           x2 == [x1 EXCEPT ![PyIdx(mm - 1, mm)] = val]
           x3 == [x2 EXCEPT ![PyIdx(hh - 1, mm)] = x2[PyIdx(hh - 1, mm)] + 1]
       IN [ok |-> TRUE, x |-> x3, h |-> IF val # 1 THEN mm ELSE hh, val |-> val]

\* The body of one iteration of the loop of simplex_grid, after "h -= 1":
\*   val = x[h]; x[h] = 0; x[m-1] = val - 1; x[h-1] += 1
\*   if val != 1: h = m
\* ok is FALSE when an index is outside the array (numpy's IndexError).
LoopBody(xx, hh, mm) ==
  IF ~(InBounds(hh, mm) /\ InBounds(hh - 1, mm) /\ InBounds(mm - 1, mm))
  THEN [ok |-> FALSE, x |-> xx, h |-> hh, val |-> 0]
  ELSE LET val == xx[PyIdx(hh, mm)]
           x1 == [xx EXCEPT ![PyIdx(hh, mm)] = 0]
           x2 == [x1 EXCEPT ![PyIdx(mm - 1, mm)] = val - 1]
           x3 == [x2 EXCEPT ![PyIdx(hh - 1, mm)] = x2[PyIdx(hh - 1, mm)] + 1]
       IN [ok |-> TRUE, x |-> x3, h |-> IF val # 1 THEN mm ELSE hh, val |-> val]

\* x = np.zeros(m); x[m-1] = n
InitialPoint(mm, nn) == [zeros(mm) EXCEPT ![PyIdx(mm - 1, mm)] = nn]

\* for i in range(1, L): ... out[i, :] = x
RECURSIVE GridLoop(_, _, _, _, _, _)
GridLoop(ii, LL, xx, hh, oo, mm) ==
  IF ii >= LL THEN [err |-> "none", out |-> oo]
  ELSE LET b == LoopBody(xx, hh - 1, mm) IN
       IF ~b.ok THEN [err |-> "IndexError", out |-> oo]
       ELSE GridLoop(ii + 1, LL, b.x, b.h, [oo EXCEPT ![ii] = b.x], mm)

\* simplex_grid(m, n) for m >= 1, with jv the content of the fresh table.
simplex_grid(mm, nn, jv) ==
  LET LL == num_compositions(mm, nn)
      x0 == InitialPoint(mm, nn)
      o0 == [empty(LL, mm, jv) EXCEPT ![0] = x0]
  IN GridLoop(1, LL, x0, mm, o0, mm)

\* --------------------------------------------------------------- Ranker
\* np.cumsum(x[-1:0:-1])[::-1]: entry i is x[i+1] + ... + x[len-1].
RevTail(xx, len) == [j \in 0..(len-2) |-> xx[len - 1 - j]]

RECURSIVE cumsumAt(_, _)
cumsumAt(a, j) == IF j < 0 THEN 0 ELSE cumsumAt(a, j - 1) + a[j]

cumsum(a, len) == [j \in 0..(len-1) |-> cumsumAt(a, j)]

Reversed(a, len) == [j \in 0..(len-1) |-> a[len - 1 - j]]

decumsumOf(xx, mm) == Reversed(cumsum(RevTail(xx, mm), mm - 1), mm - 1)

\* for i in range(m-1): if decumsum[i] == 0: break
\*                      idx -= num_compositions(m-i, decumsum[i]-1)
RECURSIVE indexLoop(_, _, _, _)
indexLoop(ii, idx, d, mm) ==
  IF ii >= mm - 1 THEN idx
  ELSE IF d[ii] = 0 THEN idx
  ELSE indexLoop(ii + 1, idx - num_compositions(mm - ii, d[ii] - 1), d, mm)

\* Faulty variant: idx starts from num_compositions(m, n), not from that - 1.
simplex_index_from_L(xx, mm, nn) ==
  IF mm = 1 THEN 0
  ELSE indexLoop(0, num_compositions(mm, nn), decumsumOf(xx, mm), mm)

simplex_index(xx, mm, nn) ==
  IF mm = 1 THEN 0
  ELSE indexLoop(0, num_compositions(mm, nn) - 1, decumsumOf(xx, mm), mm)

\* x[1:]
Rest(xx, len) == [j \in 0..(len-2) |-> xx[j + 1]]

\* Faulty variant: idx0 counts against num_compositions(m, n_next + 1).
RECURSIVE simplex_index_rec_off(_, _, _)
simplex_index_rec_off(xx, mm, nn) ==
  IF mm = 1 THEN 0
  ELSE LET n_next == IF xx[0] = 0 THEN nn ELSE nn - xx[0]
           idx0 == IF xx[0] = 0 THEN 0
                   ELSE num_compositions(mm, nn) - num_compositions(mm, n_next + 1)
       IN idx0 + simplex_index_rec_off(Rest(xx, mm), mm - 1, n_next)

\* if x[0] == 0: n_next = n; idx0 = 0
\* else: n_next = n - x[0]; idx0 = num_compositions(m, n) - num_compositions(m, n_next)
RECURSIVE simplex_index_rec(_, _, _)
simplex_index_rec(xx, mm, nn) ==
  IF mm = 1 THEN 0
  ELSE LET n_next == IF xx[0] = 0 THEN nn ELSE nn - xx[0]
           idx0 == IF xx[0] = 0 THEN 0
                   ELSE num_compositions(mm, nn) - num_compositions(mm, n_next)
       IN idx0 + simplex_index_rec(Rest(xx, mm), mm - 1, n_next)

\* ------------------------------------------------ SpecBatch: the actions
NoQuery == [row |-> -1, idx |-> -1, rec |-> -1]

\* A generator slot not yet in use. Of a generator the model keeps its
\* status, the array object x refers to, h, the number of vectors it has
\* yielded, the content of the first vector at the time it was yielded, and
\* the outcome of the last next().
NoGen == [status |-> "none", x |-> -1, h |-> 0, count |-> 0, first |-> <<>>,
          last |-> "none"]

FacadeIdle ==
  /\ m = 1 /\ n = 0 /\ size = 0 /\ fpc = "idle"
  /\ gens = [g \in GenIds |-> NoGen]
  /\ heap = <<>>
  /\ atRes = [rank |-> 0, out |-> "none"]

BatchInit ==
  /\ bm \in 1..MaxM /\ bn \in 0..MaxN
  /\ bpc = "call"
  /\ L = 0 /\ x = <<>> /\ h = 0 /\ i = 0 /\ out = <<>> /\ junk = 0
  /\ q = NoQuery
  /\ FacadeIdle

\* L = num_compositions(m, n); out = np.empty((L, m)); x = zeros, x[m-1] = n;
\* out[0, :] = x; h = m; and the loop is entered with i = 1.
BatchEnter ==
  /\ bpc = "call"
  /\ \E jv \in JunkValues :
       /\ junk' = jv
       /\ L' = num_compositions(bm, bn)
       /\ x' = InitialPoint(bm, bn)
       /\ out' = [empty(num_compositions(bm, bn), bm, jv) EXCEPT ![0] = InitialPoint(bm, bn)]
  /\ h' = bm
  /\ i' = 1
  /\ bpc' = "loop"
  /\ UNCHANGED <<bm, bn, q>>
  /\ UNCHANGED fvars

\* for i in range(1, L): h -= 1
BatchDec ==
  /\ bpc = "loop" /\ i < L
  /\ h' = h - 1
  /\ bpc' = "body"
  /\ UNCHANGED <<bm, bn, L, x, i, out, junk, q>>
  /\ UNCHANGED fvars

\* the rest of the iteration
BatchBody ==
  /\ bpc = "body"
  /\ LET b == LoopBody(x, h, bm) IN
       IF b.ok
       THEN /\ x' = b.x
            /\ h' = b.h
            /\ out' = [out EXCEPT ![i] = b.x]
            /\ i' = i + 1
            /\ bpc' = "loop"
       ELSE /\ bpc' = "IndexError"
            /\ UNCHANGED <<x, h, out, i>>
  /\ UNCHANGED <<bm, bn, L, junk, q>>
  /\ UNCHANGED fvars

\* return out
BatchReturn ==
  /\ bpc = "loop" /\ i >= L
  /\ bpc' = "done"
  /\ UNCHANGED <<bm, bn, L, x, h, i, out, junk, q>>
  /\ UNCHANGED fvars

\* simplex_index(out[r], m, n) and simplex_index_rec(out[r], m, n)
RankRow(r) ==
  /\ bpc = "done"
  /\ r \in 0..(L-1)
  /\ q' = [row |-> r,
           idx |-> simplex_index(out[r], bm, bn),
           rec |-> simplex_index_rec(out[r], bm, bn)]
  /\ UNCHANGED <<bm, bn, bpc, L, x, h, i, out, junk>>
  /\ UNCHANGED fvars

BatchNext ==
  \/ BatchEnter
  \/ BatchDec
  \/ BatchBody
  \/ BatchReturn
  \/ \E r \in 0..(L-1) : RankRow(r)

SpecBatch == BatchInit /\ [][BatchNext]_vars

\* The stepped loop and the operator simplex_grid compute the same table.
BatchAgrees ==
  bpc = "done" => simplex_grid(bm, bn, junk) = [err |-> "none", out |-> out]

\* ----------------------------------------------------- generator facade
\* The body of the generator's loop after "h -= 1" did not reach 0:
\*   val = x[h]; x[h] = 0; x[m-1] = val - 1; x[h-1] += 1
\*   if val != 1: h = m
GenBody(xx, hh, mm) ==
  IF ~(InBounds(hh, mm) /\ InBounds(hh - 1, mm) /\ InBounds(mm - 1, mm))
  THEN [ok |-> FALSE, x |-> xx, h |-> hh]
  ELSE LET val == xx[PyIdx(hh, mm)]
           x1 == [xx EXCEPT ![PyIdx(hh, mm)] = 0]
           x2 == [x1 EXCEPT ![PyIdx(mm - 1, mm)] = val - 1]
           x3 == [x2 EXCEPT ![PyIdx(hh - 1, mm)] = x2[PyIdx(hh - 1, mm)] + 1]
       IN [ok |-> TRUE, x |-> x3, h |-> IF val # 1 THEN mm ELSE hh]

\* A generator object just returned by generate(): no line of the body ran.
NewGen == [status |-> "created", x |-> <<>>, h |-> 0, out |-> "none"]

\* One next() on a generator in state st (x is the content of its array).
\*   created:   x = np.zeros(m); x[m-1] = n; h = m; yield x
\*   suspended: h -= 1; if h == 0: return; <body>; yield x
\*   finished:  StopIteration
\* out is what the caller of next() gets: "yield", or the exception raised.
GenNext(st, mm, nn) ==
  IF st.status = "created"
  THEN IF ~InBounds(mm - 1, mm)
       THEN [status |-> "finished", x |-> zeros(mm), h |-> 0, out |-> "IndexError"]
       ELSE [status |-> "suspended", x |-> InitialPoint(mm, nn), h |-> mm, out |-> "yield"]
  ELSE IF st.status = "suspended"
  THEN IF st.h - 1 = 0
       THEN [status |-> "finished", x |-> st.x, h |-> 0, out |-> "StopIteration"]
       ELSE LET b == GenBody(st.x, st.h - 1, mm) IN
            IF b.ok
            THEN [status |-> "suspended", x |-> b.x, h |-> b.h, out |-> "yield"]
            ELSE [status |-> "finished", x |-> b.x, h |-> b.h, out |-> "IndexError"]
  ELSE [status |-> "finished", x |-> st.x, h |-> st.h, out |-> "StopIteration"]

\* k calls of next(), stopping at the first one that raises.
RECURSIVE NextTimes(_, _, _, _)
NextTimes(st, k, mm, nn) ==
  IF k <= 0 THEN st
  ELSE LET r == GenNext(st, mm, nn) IN
       IF r.out # "yield" THEN r ELSE NextTimes(r, k - 1, mm, nn)

\* Faulty variant: only idx < self.size is tested.
InRangeIdxNoLower(idx, sz) == idx < sz

\* if not (0 <= idx < self.size): raise IndexError
InRangeIdx(idx, sz) == 0 <= idx /\ idx < sz

\* Faulty variant: one gen.next() too few.
getitemOneShort(idx, sz, mm, nn) ==
  IF ~InRangeIdx(idx, sz)
  THEN [out |-> "IndexError", alloc |-> FALSE, x |-> <<>>]
  ELSE LET r == NextTimes(NewGen, Max(idx, 0), mm, nn)
       IN [out |-> IF r.out = "yield" THEN "ok" ELSE r.out,
           alloc |-> InBounds(mm - 1, mm), x |-> r.x]

\* __getitem__(idx): the range check, then
\*   gen = self.generate(); for i in range(idx): gen.next(); return gen.next()
\* out is "ok" or the exception raised; x is the array of the generator.
getitem(idx, sz, mm, nn) ==
  IF ~InRangeIdx(idx, sz)
  THEN [out |-> "IndexError", alloc |-> FALSE, x |-> <<>>]
  ELSE LET r == NextTimes(NewGen, Max(idx, 0) + 1, mm, nn)
       IN [out |-> IF r.out = "yield" THEN "ok" ELSE r.out,
           alloc |-> InBounds(mm - 1, mm), x |-> r.x]

\* Faulty variant: one working array shared by every enumeration.
AllocObjShared(owner) == AtOwner

\* The array np.zeros(m) creates for an owner (generator g, or a
\* __getitem__ call): a fresh object for each.
AllocObj(owner) == owner

\* ---------------------------------------------------- Spec: the actions
BatchIdle ==
  /\ bm = 1 /\ bn = 0 /\ bpc = "idle"
  /\ L = 0 /\ x = <<>> /\ h = 0 /\ i = 0 /\ out = <<>> /\ junk = 0
  /\ q = NoQuery

Init ==
  /\ m \in 0..GenMaxM /\ n \in (-1)..GenMaxN
  /\ size = 0 /\ fpc = "new"
  /\ gens = [g \in GenIds |-> NoGen]
  /\ heap = <<>>
  /\ atRes = [rank |-> 0, out |-> "none"]
  /\ BatchIdle

\* SimplexGrid.__init__
Construct ==
  /\ fpc = "new"
  /\ size' = num_compositions(m, n)
  /\ fpc' = "ready"
  /\ UNCHANGED <<m, n, gens, heap, atRes>>
  /\ UNCHANGED bvars

\* gen = simplexgrid.generate()
Generate(g) ==
  /\ fpc = "ready"
  /\ gens[g].status = "none"
  /\ gens' = [gens EXCEPT ![g].status = "created"]
  /\ UNCHANGED <<m, n, size, fpc, heap, atRes>>
  /\ UNCHANGED bvars

\* gen.next() on generator g
Next(g) ==
  /\ fpc = "ready"
  /\ gens[g].status # "none"
  /\ gens[g].count < size + MaxExtra
  /\ LET gs == gens[g]
         o == IF gs.status = "created" THEN AllocObj(g) ELSE gs.x
         cur == [status |-> gs.status,
                 x |-> IF gs.status = "suspended" THEN heap[gs.x] ELSE <<>>,
                 h |-> gs.h, out |-> "none"]
         r == GenNext(cur, m, n)
     IN /\ gens' = [gens EXCEPT ![g] =
                      [status |-> r.status,
                       x |-> IF r.out = "yield" THEN o ELSE gs.x,
                       h |-> r.h,
                       count |-> IF r.out = "yield" THEN gs.count + 1 ELSE gs.count,
                       first |-> IF r.out = "yield" /\ gs.count = 0 THEN r.x
                                 ELSE gs.first,
                       last |-> r.out]]
        /\ heap' = IF r.out = "yield" THEN (o :> r.x) @@ heap ELSE heap
  /\ UNCHANGED <<m, n, size, fpc, atRes>>
  /\ UNCHANGED bvars

\* simplexgrid[rank]; the caller keeps the array it got from the last call
\* that returned.
At(rank) ==
  /\ fpc = "ready"
  /\ LET r == getitem(rank, size, m, n) IN
       /\ atRes' = [rank |-> rank, out |-> r.out]
       /\ heap' = IF r.alloc THEN (AllocObj(AtOwner) :> r.x) @@ heap ELSE heap
  /\ UNCHANGED <<m, n, size, fpc, gens>>
  /\ UNCHANGED bvars

\* The ranks asked for while generators are running: the two just outside
\* [0, size-1], its two ends and its middle.
SampleRanks(sz) == {-1, 0, sz \div 2, sz - 1, sz}

FacadeNext ==
  \/ Construct
  \/ \E g \in GenIds : Generate(g)
  \/ \E g \in GenIds : Next(g)
  \/ \E rank \in SampleRanks(size) : At(rank)

Spec == Init /\ [][FacadeNext]_vars

\* ------------------------------------- SpecAt: indexed access, every rank
AtInit ==
  /\ m \in 0..MaxM /\ n \in (-1)..MaxN
  /\ size = 0 /\ fpc = "new"
  /\ gens = [g \in GenIds |-> NoGen]
  /\ heap = <<>>
  /\ atRes = [rank |-> 0, out |-> "none"]
  /\ BatchIdle

AtNext ==
  \/ Construct
  \/ \E rank \in (-1)..size : At(rank)

SpecAt == AtInit /\ [][AtNext]_vars

\* -------------------------------------------- vocabulary of the claims
RECURSIVE SumUpTo(_, _)
SumUpTo(v, k) == IF k < 0 THEN 0 ELSE SumUpTo(v, k - 1) + v[k]

\* v is an mm-part composition of nn.
IsComposition(v, mm, nn) ==
  /\ DOMAIN v = 0..(mm-1)
  /\ \A j \in 0..(mm-1) : v[j] >= 0
  /\ SumUpTo(v, mm - 1) = nn

Compositions(mm, nn) ==
  {v \in [0..(mm-1) -> 0..nn] : SumUpTo(v, mm - 1) = nn}

\* a precedes b in lexicographic order.
LexLess(a, b, mm) ==
  \E k \in 0..(mm-1) : a[k] < b[k] /\ \A j \in 0..(k-1) : a[j] = b[j]

\* The binomial coefficient by Pascal's rule.
RECURSIVE Binomial(_, _)
Binomial(a, b) ==
  IF b < 0 \/ b > a THEN 0
  ELSE IF b = 0 \/ b = a THEN 1
  ELSE Binomial(a - 1, b - 1) + Binomial(a - 1, b)

FirstPoint(mm, nn) == [j \in 0..(mm-1) |-> IF j = mm - 1 THEN nn ELSE 0]

LastPoint(mm, nn) == [j \in 0..(mm-1) |-> IF j = 0 THEN nn ELSE 0]

\* ------------------------------------------------------ claims, SpecBatch
\* C1: simplex_grid(m, n) returns exactly C(n+m-1, m-1) rows, which are all
\* the m-part compositions of n, each once, in strictly increasing
\* lexicographic order; row 0 is (0,...,0,n) and the last row is (n,0,...,0).
C1_BatchEnumeratesAll ==
  /\ bpc # "IndexError"
  /\ bpc = "done" =>
       /\ DOMAIN out = 0..(Binomial(bn + bm - 1, bm - 1) - 1)
       /\ \A r \in DOMAIN out : IsComposition(out[r], bm, bn)
       /\ \A r \in DOMAIN out : (r + 1) \in DOMAIN out => LexLess(out[r], out[r + 1], bm)
       /\ \A c \in Compositions(bm, bn) : \E r \in DOMAIN out : out[r] = c
       /\ out[0] = FirstPoint(bm, bn)
       /\ out[Binomial(bn + bm - 1, bm - 1) - 1] = LastPoint(bm, bn)

C1_Witness ==
  /\ bpc = "done" /\ bm = 3 /\ bn = 4 /\ L = 15
  /\ out[2] = [j \in 0..2 |-> IF j = 0 THEN 0 ELSE 2]

\* C2: the rank computed by simplex_index for row i of simplex_grid(m, n)
\* is i.
C2_RankOfRow ==
  q.row # -1 => q.idx = q.row

C2_Witness ==
  /\ bm = 3 /\ bn = 4 /\ q.row = 6 /\ q.idx = 6
  /\ out[6] = [j \in 0..2 |-> IF j = 2 THEN 2 ELSE 1]

\* C4: simplex_index and simplex_index_rec return the same value on every
\* composition.
C4_RankersAgree ==
  q.row # -1 => q.idx = q.rec

C4_Witness ==
  /\ bm = 3 /\ bn = 4 /\ q.row # -1 /\ out[q.row][0] = 2 /\ out[q.row][1] = 1
  /\ q.rec = 10

\* C10: in every iteration of the batch loop, right after "h -= 1", the
\* pointer satisfies 1 <= h <= m-1, x[h] >= 1 is the rightmost nonzero
\* coordinate, and the working vector is nonnegative with sum n; no access
\* leaves the array.
C10_LoopInvariant ==
  /\ bpc # "IndexError"
  /\ bpc \in {"loop", "body", "done"} => IsComposition(x, bm, bn)
  /\ bpc = "body" =>
       /\ 1 <= i /\ i <= L - 1
       /\ 1 <= h /\ h <= bm - 1
       /\ x[h] >= 1
       /\ \A j \in (h+1)..(bm-1) : x[j] = 0

C10_Witness ==
  bpc = "body" /\ bm = 3 /\ bn = 4 /\ h = 1 /\ x[1] = 4 /\ i = 5

\* ----------------------------------------------------------- claims, Spec
\* A generator run alone, after k calls of next(): its state and the
\* number of vectors it has yielded.
RECURSIVE LoneRun(_, _, _, _, _)
LoneRun(st, c, k, mm, nn) ==
  IF k <= 0 THEN [st |-> st, count |-> c]
  ELSE LET r == GenNext(st, mm, nn) IN
       LoneRun(r, IF r.out = "yield" THEN c + 1 ELSE c, k - 1, mm, nn)

ValidArgs == m >= 1 /\ n >= 0

\* C3: for m >= 1 and n >= 0 the sequence returned by generate() yields
\* exactly L = C(n+m-1, m-1) vectors and then terminates.
C3_YieldsExactlyL ==
  (fpc = "ready" /\ ValidArgs) =>
    \A g \in GenIds :
      /\ gens[g].count <= size
      /\ gens[g].status = "finished" => gens[g].count = size

\* C5: num_compositions(m, n), and so SimplexGrid(m, n), fails when m < 1 or
\* n < 0: no object is constructed from such arguments.
C5_InvalidArgumentRejected ==
  (m < 1 \/ n < 0) => fpc # "ready"

\* C6: __getitem__ raises the out-of-range error exactly when the rank is
\* outside [0, size-1]; the failing call allocates nothing, touches no
\* generator and leaves m, n and size as they were.
C6_OutOfRange ==
  /\ [](atRes.out # "none" =>
          (atRes.out = "IndexError" <=> ~(0 <= atRes.rank /\ atRes.rank < size)))
  /\ [][(atRes' # atRes /\ ~(0 <= atRes'.rank /\ atRes'.rank < size))
          => (heap' = heap /\ gens' = gens /\ m' = m /\ n' = n /\ size' = size)]_vars

C6_Witness ==
  /\ m = 3 /\ n = 3 /\ size = 10
  /\ atRes = [rank |-> 10, out |-> "IndexError"]
  /\ AtOwner \in DOMAIN heap
  /\ gens[1].status = "suspended"

\* C7: for m >= 1, n >= 0 and rank in [0, size-1], simplexgrid[rank] is row
\* rank of simplex_grid(m, n), and get_index of it is rank.
C7_AtIsGridRow ==
  (fpc = "ready" /\ ValidArgs /\ atRes.out # "none"
     /\ 0 <= atRes.rank /\ atRes.rank < size) =>
    /\ atRes.out = "ok"
    /\ AtOwner \in DOMAIN heap
    /\ \A jv \in JunkValues :
         LET grid == simplex_grid(m, n, jv) IN
           /\ grid.err = "none"
           /\ atRes.rank \in DOMAIN grid.out
           /\ heap[AtOwner] = grid.out[atRes.rank]
    /\ simplex_index(heap[AtOwner], m, n) = atRes.rank

C7_Witness ==
  /\ m = 3 /\ n = 4 /\ atRes = [rank |-> 2, out |-> "ok"]
  /\ heap[AtOwner] = [j \in 0..2 |-> IF j = 0 THEN 0 ELSE 2]

\* C8: a vector yielded by generate() still holds the coordinates it had
\* when it was yielded, however far the sequence is advanced afterwards.
\* The consumer of the first vector holds the array object gens[g].x, and
\* first is what that object held when it was yielded. Stated for the L
\* points of the simplex.
C8_YieldedVectorImmutable ==
  (fpc = "ready" /\ ValidArgs) =>
    \A g \in GenIds :
      (1 <= gens[g].count /\ gens[g].count <= size) =>
        heap[gens[g].x] = gens[g].first

\* C9: under any interleaving of the steps of two generators and of
\* __getitem__ calls, each generator is, after each of its steps, where it
\* is after as many steps when run alone: it has yielded as many vectors,
\* the vector it has just yielded (the content of its array) and its h are
\* the same, and it has ended or not alike; m, n and size never change.
C9_LikeAlone ==
  (fpc = "ready") =>
    \A g \in GenIds :
      gens[g].status # "none" =>
        LET k == gens[g].count + (IF gens[g].status = "finished" THEN 1 ELSE 0)
            lone == LoneRun(NewGen, 0, k, m, n)
        IN /\ gens[g].count = lone.count
           /\ gens[g].status = lone.st.status
           /\ gens[g].status = "suspended" =>
                (heap[gens[g].x] = lone.st.x /\ gens[g].h = lone.st.h)

\* C9, with the frame: C9_LikeAlone always holds, and no step changes m, n
\* or size of a constructed facade.
C9_Independent ==
  /\ []C9_LikeAlone
  /\ [][fpc = "ready" => (m' = m /\ n' = n /\ size' = size)]_vars

C9_Witness ==
  /\ m = 3 /\ n = 2
  /\ gens[1].count = 4 /\ gens[2].count = 2
  /\ gens[1].status = "suspended" /\ gens[2].status = "suspended"
  /\ atRes = [rank |-> 5, out |-> "ok"]

====
